---- MODULE Spec2Model ----
(***************************************************************************)
(* Model of project1.py: the box-grouping pipeline of main()               *)
(*   detect_text -> group_text_boxes -> check_paragraph -> mouse_callback  *)
(* together with the pure geometry helper merge_boxes.                     *)
(*                                                                         *)
(* A box is the Python list of four corner points                          *)
(*   [top-left, top-right, bottom-right, bottom-left],  point = (x, y);    *)
(* Python's box[k][c] is box[k+1][c+1] here.  A detection / a group is the *)
(* pair [box, text]; text is a sequence of characters.  The groups are     *)
(* Python lists (mutable objects): they live in `heap`, and the lists      *)
(* grouped_texts and boxes hold references (indices into heap).            *)
(***************************************************************************)
EXTENDS Integers, Sequences, FiniteSets, Bags, TLC

\* ---------------------------------------------------------------- bounds
\* Detections per image, and the grid the detections' top-left corners lie on.
MaxLen == 3
MaxX == 1
MaxY == 2

VARIABLES
    pc,             \* position in main(): which call runs, or how it ended
    results,        \* the caller's detection list (sorted in place, line 47)
    thr,            \* the threshold arguments of the running grouping call
    heap,           \* the [box, text] list objects created so far
    grouped_texts,  \* group_text_boxes' list of groups (references into heap)
    boxes,          \* check_paragraph's list of paragraphs (references into heap)
    idx,            \* index of the next element of the running for-loop
    lineMembers,    \* history: per line group, the detections merged into it
    paraMembers,    \* history: per paragraph, the line groups merged into it
    lines0,         \* history: the line groups as check_paragraph received them
    boxA, boxB, merged,   \* arguments and result of a merge_boxes call
    click,          \* the last mouse event <<event, x, y>>
    copied,         \* the texts the last mouse_callback handed to pyperclip.copy
    clipboard       \* the clipboard's content

vars == <<pc, results, thr, heap, grouped_texts, boxes, idx, lineMembers,
          paraMembers, lines0, boxA, boxB, merged, click, copied, clipboard>>

\* ------------------------------------------------------------- geometry
Abs(n) == IF n < 0 THEN -n ELSE n
Min(a, b) == IF a < b THEN a ELSE b
Max(a, b) == IF a > b THEN a ELSE b

\* A box in the fixed corner order, from its extent.
MkBox(x0, y0, x1, y1) == << <<x0, y0>>, <<x1, y0>>, <<x1, y1>>, <<x0, y1>> >>

\* Mutants of merge_boxes: the bottom edge taken with min instead of max;
\* the second box's bottom-right corner forgotten.
merge_boxes_MinBottom(b1, b2) ==
    LET top_left == << Min(b1[1][1], b2[1][1]), Min(b1[1][2], b2[1][2]) >>
        bottom_right == << Max(b1[3][1], b2[3][1]), Min(b1[3][2], b2[3][2]) >>
    IN  << top_left, <<bottom_right[1], top_left[2]>>,
           bottom_right, <<top_left[1], bottom_right[2]>> >>
merge_boxes_FirstBottomRight(b1, b2) ==
    LET top_left == << Min(b1[1][1], b2[1][1]), Min(b1[1][2], b2[1][2]) >>
        bottom_right == b1[3]
    IN  << top_left, <<bottom_right[1], top_left[2]>>,
           bottom_right, <<top_left[1], bottom_right[2]>> >>

\* merge_boxes (lines 79-82): reads corners 0 and 2 only.
merge_boxes(b1, b2) ==
    LET top_left == << Min(b1[1][1], b2[1][1]), Min(b1[1][2], b2[1][2]) >>
        bottom_right == << Max(b1[3][1], b2[3][1]), Max(b1[3][2], b2[3][2]) >>
    IN  << top_left, <<bottom_right[1], top_left[2]>>,
           bottom_right, <<top_left[1], bottom_right[2]>> >>

\* Mutant of is_nearby: `<=` for `<` on the x distance.
is_nearby_NonStrict(b1, b2, x_threshold, y_threshold, font_threshold) ==
    LET x_dist == Abs(b1[3][1] - b2[1][1])
        y_dist == Abs(b1[1][2] - b2[1][2])
        height1 == b1[3][2] - b1[1][2]
        height2 == b2[3][2] - b2[1][2]
        font_size_similar == Abs(height1 - height2) < font_threshold
    IN  x_dist <= x_threshold /\ y_dist < y_threshold /\ font_size_similar

\* is_nearby (lines 63-75)
is_nearby(b1, b2, x_threshold, y_threshold, font_threshold) ==
    LET x_dist == Abs(b1[3][1] - b2[1][1])
        y_dist == Abs(b1[1][2] - b2[1][2])
        height1 == b1[3][2] - b1[1][2]
        height2 == b2[3][2] - b2[1][2]
        font_size_similar == Abs(height1 - height2) < font_threshold
    IN  x_dist < x_threshold /\ y_dist < y_threshold /\ font_size_similar

\* is_nearby_parag (lines 110-115)
is_nearby_parag(b1, b2, parag_y_threshold, parag_x_threshold) ==
    LET parag_dist_y == Abs(b1[4][2] - b2[1][2])
        parag_dist_x == Abs(b1[1][1] - b2[1][1])
    IN  parag_dist_y < parag_y_threshold /\ parag_dist_x < parag_x_threshold

\* ----------------------------------------------------------------- sort
\* The sort key of line 47: (top-left y, top-left x), compared as tuples.
KeyLess(d, e) ==
    \/ d[1][1][2] < e[1][1][2]
    \/ d[1][1][2] = e[1][1][2] /\ d[1][1][1] < e[1][1][1]

\* Insert d after every element whose key is not greater (keeps ties in order).
RECURSIVE InsertSorted(_, _)
InsertSorted(d, s) ==
    IF s = <<>> THEN <<d>>
    ELSE IF KeyLess(d, s[1]) THEN <<d>> \o s
    ELSE <<s[1]>> \o InsertSorted(d, Tail(s))

\* Mutant of the sort: the list is taken in the detector's order.
SortByKey_Unsorted(s) == s

\* list.sort(key=...) (line 47): ascending and stable.
RECURSIVE SortByKey(_)
SortByKey(s) ==
    IF s = <<>> THEN <<>>
    ELSE InsertSorted(s[Len(s)], SortByKey(SubSeq(s, 1, Len(s) - 1)))

\* ----------------------------------------------------------------- text
Space == " "
\* Mutant of the concatenation: the separating space forgotten.
JoinText_NoSpace(t1, t2) == t1 \o t2

\* text1 + " " + text2 (lines 54, 96)
JoinText(t1, t2) == t1 \o <<Space>> \o t2

\* ---------------------------------------------------------------- inputs
WellFormed(b) == b[1][1] <= b[3][1] /\ b[1][2] <= b[3][2]

\* Every axis-aligned box (x_min <= x_max, y_min <= y_max) with corners in
\* 0..mx by 0..my, in the fixed corner order.
BoxesIn(mx, my) ==
    { b \in { MkBox(x0, y0, x1, y1) :
                  x0 \in 0..mx, x1 \in 0..mx, y0 \in 0..my, y1 \in 0..my } :
      WellFormed(b) }

\* Text heights (font sizes) and widths of single detections, in grid cells.
Heights == {1, 2}
Widths == {1}

\* The boxes of single detections: a top-left corner on the grid, a width
\* and a height.
DetBoxes ==
    { MkBox(x0, y0, x0 + w, y0 + h) :
          x0 \in 0..MaxX, y0 \in 0..MaxY, w \in Widths, h \in Heights }

\* The text the image shows at a box: mixed case, one word or two.  The
\* grouping code never reads a text, it only concatenates them.
Lower == <<"a", "b", "c", "d", "e", "f", "g", "h">>
Upper == <<"A", "B", "C", "D", "E", "F", "G", "H">>
TextAt(b) ==
    LET x == b[1][1] + 1
        y == b[1][2] + 1
    IN  IF b[3][2] - b[1][2] = 1
        THEN << Upper[x], Lower[y] >>
        ELSE << Lower[y], Space, Upper[x] >>

\* A detection (box, text, confidence); result[:2] (line 50) drops the
\* confidence, which nothing else reads.
Detections == { <<b, TextAt(b)>> : b \in DetBoxes }

\* Threshold arguments tried (the defaults of lines 43 and 86 are one setting).
Thresholds == {1, 2}

NoBox == <<>>
NoClick == <<"none", 0, 0>>

\* ------------------------------------------------------- main(): pipeline
\* detect_text has returned (line 140): any list of at most MaxLen detections.
Init ==
    /\ pc = "detected"
    /\ \E n \in 0..MaxLen : results \in [1..n -> Detections]
    /\ thr = <<>>
    /\ heap = <<>>
    /\ grouped_texts = <<>>
    /\ boxes = <<>>
    /\ idx = 0
    /\ lineMembers = <<>>
    /\ paraMembers = <<>>
    /\ lines0 = <<>>
    /\ boxA = NoBox /\ boxB = NoBox /\ merged = NoBox
    /\ click = NoClick
    /\ copied = <<>>
    /\ clipboard = <<>>

\* group_text_boxes is called (lines 43-47): the list is sorted in place.
GroupTextBoxesCall ==
    /\ pc = "detected"
    /\ \E x_threshold \in Thresholds, y_threshold \in Thresholds,
          font_threshold \in Thresholds :
          thr' = <<x_threshold, y_threshold, font_threshold>>
    /\ results' = SortByKey(results)
    /\ grouped_texts' = <<>>
    /\ idx' = 1
    /\ pc' = "lines"
    /\ UNCHANGED <<heap, boxes, lineMembers, paraMembers, lines0,
                   boxA, boxB, merged, click, copied, clipboard>>

\* One iteration of the loop of lines 49-57.
GroupTextBoxesStep ==
    /\ pc = "lines"
    /\ idx <= Len(results)
    /\ LET box == results[idx][1]
           text == results[idx][2]
           n == Len(grouped_texts)
           last == IF n > 0 THEN grouped_texts[n] ELSE 0
       IN  IF n > 0 /\ is_nearby(heap[last][1], box, thr[1], thr[2], thr[3])
           THEN /\ heap' = [heap EXCEPT
                      ![last] = << merge_boxes(heap[last][1], box),
                                   JoinText(heap[last][2], text) >>]
                /\ lineMembers' = [lineMembers EXCEPT ![n] = Append(@, idx)]
                /\ UNCHANGED grouped_texts
           ELSE /\ heap' = Append(heap, <<box, text>>)
                /\ grouped_texts' = Append(grouped_texts, Len(heap) + 1)
                /\ lineMembers' = Append(lineMembers, <<idx>>)
    /\ idx' = idx + 1
    /\ UNCHANGED <<pc, results, thr, boxes, paraMembers, lines0,
                   boxA, boxB, merged, click, copied, clipboard>>

\* group_text_boxes returns (line 59).
GroupTextBoxesReturn ==
    /\ pc = "lines"
    /\ idx > Len(results)
    /\ pc' = "grouped"
    /\ UNCHANGED <<results, thr, heap, grouped_texts, boxes, idx, lineMembers,
                   paraMembers, lines0, boxA, boxB, merged, click, copied,
                   clipboard>>

\* check_paragraph is called (lines 86-88).  grouped_texts[0] raises
\* IndexError on an empty list; otherwise boxes starts with the first line
\* group itself: the same list object, not a copy of it.
CheckParagraphCall ==
    /\ pc = "grouped"
    /\ \E parag_y_threshold \in Thresholds, parag_x_threshold \in Thresholds :
          thr' = <<parag_y_threshold, parag_x_threshold>>
    /\ lines0' = [k \in 1..Len(grouped_texts) |-> heap[grouped_texts[k]]]
    /\ IF grouped_texts = <<>>
       THEN /\ pc' = "IndexError"
            /\ UNCHANGED <<boxes, idx, paraMembers>>
       ELSE /\ pc' = "paragraphs"
            /\ boxes' = <<grouped_texts[1]>>
            /\ paraMembers' = << <<1>> >>
            /\ idx' = 2
    /\ UNCHANGED <<results, heap, grouped_texts, lineMembers,
                   boxA, boxB, merged, click, copied, clipboard>>

\* The paragraphs that is_nearby_parag accepts for box1, in list order
\* (the scan of lines 93-95).
Matches(box1) ==
    { i \in 1..Len(boxes) :
          is_nearby_parag(heap[boxes[i]][1], box1, thr[1], thr[2]) }

\* Mutant of the scan: the last paragraph that passes wins, not the first.
SetMin_LastMatch(S) == CHOOSE m \in S : \A k \in S : m >= k

\* The first index in S: the scan of lines 93-100 stops at its first match.
SetMin(S) == CHOOSE m \in S : \A k \in S : m <= k

\* One iteration of the outer loop of lines 90-104; the loop runs over the
\* slice grouped_texts[1:], a new list of the same group objects.  The list
\* `delete` (lines 88, 98) is written and never read.
CheckParagraphStep ==
    /\ pc = "paragraphs"
    /\ idx <= Len(grouped_texts)
    /\ LET box1 == heap[grouped_texts[idx]][1]
           text1 == heap[grouped_texts[idx]][2]
       IN  IF Matches(box1) # {}
           THEN LET i == SetMin(Matches(box1))
                    r == boxes[i]
                IN  /\ heap' = [heap EXCEPT
                           ![r] = << merge_boxes(heap[r][1], box1),
                                     JoinText(heap[r][2], text1) >>]
                    /\ paraMembers' = [paraMembers EXCEPT ![i] = Append(@, idx)]
                    /\ UNCHANGED boxes
           ELSE /\ heap' = Append(heap, <<box1, text1>>)
                /\ boxes' = Append(boxes, Len(heap) + 1)
                /\ paraMembers' = Append(paraMembers, <<idx>>)
    /\ idx' = idx + 1
    /\ UNCHANGED <<pc, results, thr, grouped_texts, lineMembers, lines0,
                   boxA, boxB, merged, click, copied, clipboard>>

\* check_paragraph returns (line 106).
CheckParagraphReturn ==
    /\ pc = "paragraphs"
    /\ idx > Len(grouped_texts)
    /\ pc' = "done"
    /\ UNCHANGED <<results, thr, heap, grouped_texts, boxes, idx, lineMembers,
                   paraMembers, lines0, boxA, boxB, merged, click, copied,
                   clipboard>>

Next ==
    \/ GroupTextBoxesCall
    \/ GroupTextBoxesStep
    \/ GroupTextBoxesReturn
    \/ CheckParagraphCall
    \/ CheckParagraphStep
    \/ CheckParagraphReturn

Spec == Init /\ [][Next]_vars

\* ------------------------------------------------------------ merge_boxes
\* merge_boxes as a function of its own: any two axis-aligned boxes.
MergeInputs == BoxesIn(MaxX + 1, MaxY + 1)

InitMerge ==
    /\ pc = "merge_call"
    /\ boxA \in MergeInputs
    /\ boxB \in MergeInputs
    /\ merged = NoBox
    /\ results = <<>> /\ thr = <<>> /\ heap = <<>> /\ grouped_texts = <<>>
    /\ boxes = <<>> /\ idx = 0 /\ lineMembers = <<>> /\ paraMembers = <<>>
    /\ lines0 = <<>> /\ click = NoClick /\ copied = <<>> /\ clipboard = <<>>

MergeBoxes ==
    /\ pc = "merge_call"
    /\ merged' = merge_boxes(boxA, boxB)
    /\ pc' = "merge_done"
    /\ UNCHANGED <<results, thr, heap, grouped_texts, boxes, idx, lineMembers,
                   paraMembers, lines0, boxA, boxB, click, copied, clipboard>>

NextMerge == MergeBoxes

SpecMerge == InitMerge /\ [][NextMerge]_vars

\* --------------------------------------------------------- mouse_callback
\* The window shows the groups (lines 144-147) and mouse events arrive.
\* Here a box coordinate counts half pixels, so that int() (lines 123-124)
\* has something to cut off; the event's x and y are whole pixels.
MaxGroups == 2
int(v) == v \div 2

ShownBoxes == BoxesIn(2 * MaxX + 1, MaxY)
ShownTexts == { <<"A", "b">>, <<"c", Space, "D">> }
ShownGroups == ShownBoxes \X ShownTexts
Events == {"EVENT_LBUTTONDOWN", "EVENT_MOUSEMOVE"}

\* str.lower() (line 126)
LowerChar(c) ==
    IF \E k \in 1..Len(Upper) : Upper[k] = c
    THEN Lower[CHOOSE k \in 1..Len(Upper) : Upper[k] = c]
    ELSE c
lower(text) == [k \in 1..Len(text) |-> LowerChar(text[k])]

InitHit ==
    /\ pc = "shown"
    /\ \E n \in 0..MaxGroups : heap \in [1..n -> ShownGroups]
    /\ boxes = [k \in 1..Len(heap) |-> k]
    /\ click = NoClick
    /\ copied = <<>>
    /\ clipboard = <<>>
    /\ results = <<>> /\ thr = <<>> /\ grouped_texts = <<>> /\ idx = 0
    /\ lineMembers = <<>> /\ paraMembers = <<>> /\ lines0 = <<>>
    /\ boxA = NoBox /\ boxB = NoBox /\ merged = NoBox

\* The test of line 125 on the corners of lines 123-124.
Inside(box, x, y) ==
    LET top_left == << int(box[1][1]), int(box[1][2]) >>
        bottom_right == << int(box[3][1]), int(box[3][2]) >>
    IN  /\ top_left[1] <= x /\ x <= bottom_right[1]
        /\ top_left[2] <= y /\ y <= bottom_right[2]

\* The loop of lines 122-127 from group k on: every group whose box holds the
\* point is copied, in list order; there is no break.
RECURSIVE CopiesFrom(_, _, _)
CopiesFrom(k, x, y) ==
    IF k > Len(boxes) THEN <<>>
    ELSE (IF Inside(heap[boxes[k]][1], x, y)
          THEN << lower(heap[boxes[k]][2]) >>
          ELSE <<>>) \o CopiesFrom(k + 1, x, y)

\* mouse_callback(event, x, y, flags, param) (lines 119-127); a copy
\* replaces the clipboard's content.
MouseCallback ==
    /\ pc = "shown"
    /\ \E event \in Events, x \in 0..(MaxX + 1), y \in 0..MaxY :
          /\ click' = <<event, x, y>>
          /\ copied' = IF event = "EVENT_LBUTTONDOWN"
                       THEN CopiesFrom(1, x, y) ELSE <<>>
          /\ clipboard' = IF copied' = <<>> THEN clipboard
                          ELSE copied'[Len(copied')]
    /\ UNCHANGED <<pc, results, thr, heap, grouped_texts, boxes, idx,
                   lineMembers, paraMembers, lines0, boxA, boxB, merged>>

NextHit == MouseCallback

SpecHit == InitHit /\ [][NextHit]_vars

\* ================================================================ claims
\* Vocabulary of the claims, written from their wording and not from the
\* code: extents as minima and maxima over all four corners, texts joined
\* by single spaces, words as maximal runs of non-space characters.
Range(s) == { s[k] : k \in DOMAIN s }
MinOf(S) == CHOOSE m \in S : \A k \in S : m <= k
XMin(b) == Min(Min(b[1][1], b[2][1]), Min(b[3][1], b[4][1]))
XMax(b) == Max(Max(b[1][1], b[2][1]), Max(b[3][1], b[4][1]))
YMin(b) == Min(Min(b[1][2], b[2][2]), Min(b[3][2], b[4][2]))
YMax(b) == Max(Max(b[1][2], b[2][2]), Max(b[3][2], b[4][2]))
\* The bounding extent of a non-empty sequence of boxes.
RECURSIVE ExtentOf(_)
ExtentOf(bs) ==
    LET b == bs[Len(bs)]
    IN  IF Len(bs) = 1
        THEN MkBox(XMin(b), YMin(b), XMax(b), YMax(b))
        ELSE LET e == ExtentOf(SubSeq(bs, 1, Len(bs) - 1))
             IN  MkBox(Min(XMin(e), XMin(b)), Min(YMin(e), YMin(b)),
                       Max(XMax(e), XMax(b)), Max(YMax(e), YMax(b)))

RECURSIVE JoinAll(_)
JoinAll(ts) ==
    IF Len(ts) = 0 THEN <<>>
    ELSE IF Len(ts) = 1 THEN ts[1]
    ELSE JoinAll(SubSeq(ts, 1, Len(ts) - 1)) \o <<Space>> \o ts[Len(ts)]

\* The words of a text, as a bag.
RECURSIVE WordBag(_, _)
WordBag(t, word) ==
    IF t = <<>>
    THEN (IF word = <<>> THEN EmptyBag ELSE SetToBag({word}))
    ELSE IF t[1] = Space
    THEN (IF word = <<>> THEN EmptyBag ELSE SetToBag({word}))
             (+) WordBag(Tail(t), <<>>)
    ELSE WordBag(Tail(t), Append(word, t[1]))

RECURSIVE WordsOfAll(_)
WordsOfAll(ts) ==
    IF ts = <<>> THEN EmptyBag
    ELSE WordBag(ts[1], <<>>) (+) WordsOfAll(Tail(ts))

RECURSIVE Flatten(_)
Flatten(ss) == IF ss = <<>> THEN <<>> ELSE ss[1] \o Flatten(Tail(ss))

\* The line groups and the paragraphs as values, in list order.
LineGroups == [n \in 1..Len(grouped_texts) |-> heap[grouped_texts[n]]]
Paragraphs == [i \in 1..Len(boxes) |-> heap[boxes[i]]]
DetBoxesOf(ms) == [j \in 1..Len(ms) |-> results[ms[j]][1]]
DetTextsOf(ms) == [j \in 1..Len(ms) |-> results[ms[j]][2]]
LineBoxesOf(ms) == [j \in 1..Len(ms) |-> lines0[ms[j]][1]]
LineTextsOf(ms) == [j \in 1..Len(ms) |-> lines0[ms[j]][2]]

InLines == pc \in {"lines", "grouped"}
InParagraphs == pc \in {"paragraphs", "done"}

\* C1: on an empty detection list group_text_boxes returns an empty list and
\* check_paragraph, given that list, returns an empty list and raises nothing.
C1_EmptyInputNeverFails ==
    (results = <<>> /\ pc \notin {"detected", "lines"})
        => /\ grouped_texts = <<>>
           /\ pc # "IndexError"
           /\ (pc = "done" => boxes = <<>>)

\* C2: a left-button click copies the lowercased text of the first group, in
\* list order, whose rectangle holds the point (bounds inclusive), also when
\* several groups hold it; it copies nothing when no group holds it.
HitGroups == { k \in 1..Len(boxes) : Inside(heap[boxes[k]][1], click[2], click[3]) }
C2_FirstContainingGroupCopied ==
    (pc = "shown" /\ click[1] = "EVENT_LBUTTONDOWN")
        => IF HitGroups = {}
           THEN copied = <<>>
           ELSE clipboard = lower(heap[boxes[MinOf(HitGroups)]][2])

\* C3: check_paragraph leaves every line group of its input, the first one
\* included, with the box and the text it had at the call.
C3_InputLineGroupsUntouched ==
    InParagraphs => LineGroups = lines0

\* C4: group_text_boxes leaves the caller's detection list as it was: the
\* same detections in the same order.
C4_CallerListUntouched == [][results' = results]_vars

\* C5: group_text_boxes neither loses nor duplicates text: the words of the
\* returned groups are, as a bag, the words of the detections; every
\* detection lies in exactly one group; the groups' texts, joined in list
\* order, are the detections' texts joined in processing order.
C5_NoTextLostOrDuplicated ==
    pc = "grouped" =>
        LET out == [n \in 1..Len(LineGroups) |-> LineGroups[n][2]]
            inp == [k \in 1..Len(results) |-> results[k][2]]
        IN  /\ WordsOfAll(out) = WordsOfAll(inp)
            /\ \A k \in 1..Len(results) :
                   Cardinality({ n \in 1..Len(lineMembers) :
                                     k \in Range(lineMembers[n]) }) = 1
            /\ JoinAll(out) = JoinAll(inp)
            /\ \A n \in 1..Len(LineGroups) :
                   out[n] = JoinAll(DetTextsOf(lineMembers[n]))

\* a returned line group that holds several detections, one of them with a
\* text of two words, next to another group
C5_Witness ==
    /\ pc = "grouped"
    /\ Len(grouped_texts) >= 2
    /\ \E n \in 1..Len(lineMembers) :
          /\ Len(lineMembers[n]) >= 2
          /\ \E j \in 1..Len(lineMembers[n]) :
                 Space \in Range(results[lineMembers[n][j]][2])

\* C6: after every step of both grouping loops each group's box is the
\* bounding extent of the members merged into it so far and its text is the
\* members' texts in merge order joined by single spaces; a group without a
\* merge has its seed's box and text.
C6_GroupIsExtentAndJoinOfMembers ==
    /\ InLines =>
          /\ Len(lineMembers) = Len(grouped_texts)
          /\ \A n \in 1..Len(grouped_texts) :
                 heap[grouped_texts[n]]
                     = << ExtentOf(DetBoxesOf(lineMembers[n])),
                          JoinAll(DetTextsOf(lineMembers[n])) >>
    /\ InParagraphs =>
          /\ Len(paraMembers) = Len(boxes)
          /\ \A i \in 1..Len(boxes) :
                 heap[boxes[i]]
                     = << ExtentOf(LineBoxesOf(paraMembers[i])),
                          JoinAll(LineTextsOf(paraMembers[i])) >>

\* a finished run in which a line group of two detections was merged with a
\* further line group into a paragraph whose box is none of its members' boxes
C6_Witness ==
    /\ pc = "done"
    /\ \E i \in 1..Len(paraMembers) :
          /\ Len(paraMembers[i]) >= 2
          /\ \E j \in 1..Len(paraMembers[i]) :
                 Len(lineMembers[paraMembers[i][j]]) >= 2
          /\ Paragraphs[i][1] \notin Range(LineBoxesOf(paraMembers[i]))

\* C7: merge_boxes of two axis-aligned boxes in the fixed corner order is a
\* box in that corner order which holds every corner of both.
HoldsPoint(b, p) ==
    /\ b[1][1] <= p[1] /\ p[1] <= b[3][1]
    /\ b[1][2] <= p[2] /\ p[2] <= b[3][2]
C7_MergeContainsBoth ==
    pc = "merge_done" =>
        /\ merged = MkBox(merged[1][1], merged[1][2], merged[3][1], merged[3][2])
        /\ WellFormed(merged)
        /\ \A p \in Range(boxA) \cup Range(boxB) : HoldsPoint(merged, p)

\* a merge of two boxes neither of which holds the other
C7_Witness ==
    /\ pc = "merge_done"
    /\ merged # boxA
    /\ merged # boxB

\* C8: two detections whose top edges lie y_threshold or more apart are
\* never in the same line group, whatever was merged in between.
TopOf(k) == results[k][1][1][2]
C8_VerticalGapNeverBridged ==
    InLines =>
        \A n \in 1..Len(lineMembers) :
            \A a, b \in Range(lineMembers[n]) :
                Abs(TopOf(a) - TopOf(b)) < thr[2]

\* three detections a, b, c: a and b share a group, c lies y_threshold or
\* more below a and stays out of the group although c taken with b alone
\* passes is_nearby
C8_Witness ==
    /\ pc = "grouped"
    /\ \E n \in 1..Len(lineMembers) :
          \E a, b \in Range(lineMembers[n]) :
              \E c \in 1..Len(results) :
                  /\ a < b /\ b < c
                  /\ c \notin Range(lineMembers[n])
                  /\ TopOf(c) - TopOf(a) >= thr[2]
                  /\ TopOf(c) - TopOf(b) < thr[2]
                  /\ is_nearby(results[b][1], results[c][1], thr[1], thr[2], thr[3])

\* C9: group_text_boxes takes the detections in ascending (top-left y,
\* top-left x) order and compares each with the last group only: it joins
\* that group iff x distance, y distance and height difference to the group's
\* grown box are all strictly below their thresholds, and otherwise starts a
\* new last group; so the groups are consecutive runs of the sorted list, in
\* the order formed.
NearLine(g, d) ==
    /\ Abs(XMax(g) - XMin(d)) < thr[1]
    /\ Abs(YMin(g) - YMin(d)) < thr[2]
    /\ Abs((YMax(g) - YMin(g)) - (YMax(d) - YMin(d))) < thr[3]
Ascending ==
    \A k \in 1..(Len(results) - 1) :
        \/ YMin(results[k][1]) < YMin(results[k + 1][1])
        \/ /\ YMin(results[k][1]) = YMin(results[k + 1][1])
           /\ XMin(results[k][1]) <= XMin(results[k + 1][1])
\* The detection handled last is the last member of the last group: it
\* joined iff it passed the test against what the group was before.
LastHandledOk ==
    LET n == Len(lineMembers)
        ms == lineMembers[n]
        d == results[idx - 1][1]
    IN  /\ ms[Len(ms)] = idx - 1
        /\ IF Len(ms) > 1
           THEN NearLine(ExtentOf(DetBoxesOf(SubSeq(ms, 1, Len(ms) - 1))), d)
           ELSE n > 1 => ~NearLine(ExtentOf(DetBoxesOf(lineMembers[n - 1])), d)
C9_GreedyLastGroupOnly ==
    InLines =>
        /\ Ascending
        /\ Flatten(lineMembers) = [k \in 1..(idx - 1) |-> k]
        /\ Len(grouped_texts) = Len(lineMembers)
        /\ idx > 1 => LastHandledOk

\* a finished call with a merged group and a new group whose seed was turned
\* away by one test alone, at a distance equal to the threshold
C9_Witness ==
    /\ pc = "grouped"
    /\ \E n \in 1..Len(lineMembers) : Len(lineMembers[n]) >= 2
    /\ \E n \in 2..Len(lineMembers) :
          LET g == ExtentOf(DetBoxesOf(lineMembers[n - 1]))
              d == results[lineMembers[n][1]][1]
          IN  /\ Abs(XMax(g) - XMin(d)) = thr[1]
              /\ Abs(YMin(g) - YMin(d)) < thr[2]
              /\ Abs((YMax(g) - YMin(g)) - (YMax(d) - YMin(d))) < thr[3]

\* C10: check_paragraph seeds its output with the first line group and puts
\* every later line group g into exactly one paragraph: the earliest one in
\* output order whose grown box passes |p.bottom - g.top| < y_threshold and
\* |p.left - g.left| < x_threshold, also when a later paragraph passes too;
\* when none passes, g becomes a new paragraph at the end.
NearPara(p, g) ==
    /\ Abs(YMax(p) - YMin(g)) < thr[1]
    /\ Abs(XMin(p) - XMin(g)) < thr[2]
\* The members paragraph i had when line group k came up.
MembersBefore(i, k) == SelectSeq(paraMembers[i], LAMBDA m : m < k)
Candidates(k) ==
    { i \in 1..Len(paraMembers) :
          /\ paraMembers[i][1] < k
          /\ NearPara(ExtentOf(LineBoxesOf(MembersBefore(i, k))), lines0[k][1]) }
HomeOf(k) == { i \in 1..Len(paraMembers) : k \in Range(paraMembers[i]) }
\* The line group handled last went where the claim says.
LastLineGroupOk ==
    LET k == idx - 1
        cand == Candidates(k)
        home == HomeOf(k)
    IN  /\ Cardinality(home) = 1
        /\ IF cand # {}
           THEN home = { MinOf(cand) }
           ELSE home = { Len(paraMembers) } /\ paraMembers[Len(paraMembers)] = <<k>>
C10_FirstMatchWins ==
    InParagraphs =>
        /\ paraMembers[1][1] = 1
        /\ boxes[1] = grouped_texts[1]
        /\ Len(boxes) = Len(paraMembers)
        /\ idx > 2 => LastLineGroupOk

\* a finished call in which a line group passed the test of two paragraphs
C10_Witness ==
    /\ pc = "done"
    /\ \E k \in 2..Len(lines0) : Cardinality(Candidates(k)) >= 2
====
